---- MODULE Spec2Model ----
(***************************************************************************)
(* Model of rename_invoice_by_client.py.                                   *)
(*                                                                         *)
(* Text is modelled at the level of lexemes: a line is a sequence of       *)
(* lexemes separated by single spaces; the lexeme "  " stands for a run of *)
(* two spaces.  Every regular expression of the source is modelled by what *)
(* it matches on such lines.  File names are sequences of characters.      *)
(***************************************************************************)
EXTENDS Integers, Sequences, FiniteSets

VARIABLES
  lineas,      \* detectar_nombre_cliente: the stripped lines of the text
  xpc,         \* detectar_nombre_cliente: position
  layout,      \* detectar_nombre_cliente: result of determinar_layout
  nombre,      \* detectar_nombre_cliente: result of the dispatched extractors
  resultado,   \* detectar_nombre_cliente: returned value
  texto,       \* detectar_fecha_emision: the text
  fpc,         \* detectar_fecha_emision: index of the pattern being tried, 0 when returned
  fecha,       \* detectar_fecha_emision: returned value
  pc,          \* process: "import", "main", "loop", "fin"
  apply,       \* args.apply
  limite,      \* LIMITE_NOMBRE_CLIENTE
  formato,     \* FORMATO_NOMBRE_ARCHIVO
  dirSalida,   \* whether the directory RUTA_SALIDA exists
  salida,      \* files of RUTA_SALIDA: records of a name and a content
  fs0,         \* the output directory as it was when the process started
  archivos,    \* main: the list built from glob
  pos,         \* main: index in archivos of the document the loop is at
  stdout,      \* one record per line printed by the loop of main, over all runs
  corrida,     \* number of the current run of the tool
  rutaValida,  \* os.path.isdir(ruta)
  fallos       \* number of calls of shutil.copy2 that raised

nvars == <<lineas, xpc, layout, nombre, resultado>>
fvars == <<texto, fpc, fecha>>
rvars == <<pc, apply, limite, formato, dirSalida, salida, fs0, archivos, pos, stdout, corrida,
          rutaValida, fallos>>
vars == <<lineas, xpc, layout, nombre, resultado, texto, fpc, fecha,
          pc, apply, limite, formato, dirSalida, salida, fs0, archivos, pos, stdout, corrida,
          rutaValida, fallos>>

\* ---------------------------------------------------------------- bounds

MaxLineas == 4

MaxTexto == 4

MaxCorridas == 2

MaxFallos == 1

\* ------------------------------------------------------- Optional[str]

None == [some |-> FALSE, s |-> <<>>]

Some(s) == [some |-> TRUE, s |-> s]

\* Python truthiness of an Optional[str]
Truthy(o) == o.some /\ o.s # <<>>

\* Python's  a or b
OrElse(a, b) == IF Truthy(a) THEN a ELSE b

\* ------------------------------------------------------------- lexemes

DS == "  "

EtiquetaPrimaria == {"Apellido y Nombre / Razon Social:", "Apellido y Nombre / Razon Social"}

EtiquetaRazon == {"Razon Social:", "Razon Social"}

ConDosPuntos == {"Apellido y Nombre / Razon Social:", "Razon Social:"}

\* number of matches of [A-Za-z...]{2,} in a lexeme
Alfabeticos(t) ==
  CASE t \in {"Apellido y Nombre / Razon Social:", "Apellido y Nombre / Razon Social"} -> 4
    [] t \in {"Razon Social:", "Razon Social"} -> 2
    [] t \in {"Domicilio:", "Factura B", "JUAN", "PEREZ", "ACME", "RIOS", "Falsa", "Calle", "SRL"} -> 1
    [] OTHER -> 0

RECURSIVE PrimerIndice(_, _, _)
\* first index >= i of a lexeme of ln that is in E, 0 when there is none
PrimerIndice(ln, E, i) ==
  IF i > Len(ln) THEN 0
  ELSE IF ln[i] \in E THEN i
  ELSE PrimerIndice(ln, E, i + 1)

Contiene(ln, E) == PrimerIndice(ln, E, 1) # 0

RECURSIVE Strip(_)
\* str.strip() on a line: leading and trailing space runs removed
Strip(s) ==
  IF s = <<>> THEN s
  ELSE IF Head(s) = DS THEN Strip(Tail(s))
  ELSE IF s[Len(s)] = DS THEN Strip(SubSeq(s, 1, Len(s) - 1))
  ELSE s

RECURSIVE StrLen(_)
\* len() of the string a lexeme sequence stands for
StrLen(s) ==
  IF s = <<>> THEN 0
  ELSE IF Len(s) = 1 THEN Len(s[1])
  ELSE Len(s[1]) + 1 + StrLen(Tail(s))

\* PATRONES_CORTE.search(s)
PATRONES_CORTE(s) == Contiene(s, {"Domicilio:"})

\* SUFIJOS_SOCIALES.search(s)
SUFIJOS_SOCIALES(s) == Contiene(s, {"SRL", "S.A."})

\* INDICIOS_LAYOUT_B.search(texto), texto being the lines joined
INDICIOS_LAYOUT_B(ls) == \E i \in 1..Len(ls) : Contiene(ls[i], {"Factura B"})

\* PATRON_ETIQUETA_INLINE.search(ln): the label followed by at least one character
PATRON_ETIQUETA_INLINE(ln) ==
  LET i == PrimerIndice(ln, EtiquetaPrimaria, 1)
  IN i # 0 /\ (i < Len(ln) \/ ln[i] \in ConDosPuntos)

\* PATRON_ETIQUETA_SOLO.search(ln): the line is the label
PATRON_ETIQUETA_SOLO(ln) == Len(ln) = 1 /\ ln[1] \in EtiquetaPrimaria

\* PATRON_RAZON_INLINE.search(ln); "Razon Social" also ends the primary label
PATRON_RAZON_INLINE(ln) ==
  LET i == PrimerIndice(ln, EtiquetaRazon \cup EtiquetaPrimaria, 1)
  IN i # 0 /\ (i < Len(ln) \/ ln[i] \in ConDosPuntos)

\* PATRON_RAZON_SOLO.search(ln)
PATRON_RAZON_SOLO(ln) == Len(ln) = 1 /\ ln[1] \in EtiquetaRazon

\* m.group(1).strip() of an INLINE match on the labels E: the rest of the line, or
\* the colon itself when nothing follows it
Grupo1(ln, E) ==
  LET i == PrimerIndice(ln, E, 1)
  IN IF i < Len(ln) THEN Strip(SubSeq(ln, i + 1, Len(ln))) ELSE <<":">>

parece_direccion(s) == Contiene(s, {"123", "Calle", "Domicilio:"})

RECURSIVE ContarAlfabeticos(_)
ContarAlfabeticos(s) ==
  IF s = <<>> THEN 0 ELSE Alfabeticos(Head(s)) + ContarAlfabeticos(Tail(s))

es_nombre_viable(s) == ContarAlfabeticos(s) >= 2

\* the text of s before the first lexeme of E
Antes(s, E) ==
  LET i == PrimerIndice(s, E, 1)
  IN IF i = 0 THEN s ELSE SubSeq(s, 1, i - 1)

cortar_en_siguientes_etiquetas(s) ==
  LET s1 == Strip(Antes(s, {DS}))
  IN IF PATRONES_CORTE(s1) THEN Strip(Antes(s1, {"Domicilio:"})) ELSE s1

\* ---------------------------------------------------------- extractors

VENTANA_BUSQUEDA_SIGUIENTES == 12

Min(a, b) == IF a <= b THEN a ELSE b

RECURSIVE ConcatenarFlexible(_, _, _, _)
\* the while loop of buscar_despues_de_etiqueta_flexible; t is the next line to read
ConcatenarFlexible(ls, t, k, trozo) ==
  IF ~(k < 2 /\ t <= Len(ls)) THEN trozo
  ELSE IF ls[t] = <<>> THEN ConcatenarFlexible(ls, t + 1, k, trozo)
  ELSE IF PATRONES_CORTE(ls[t]) THEN trozo
  ELSE IF cortar_en_siguientes_etiquetas(ls[t]) = <<>> THEN trozo
  ELSE ConcatenarFlexible(ls, t + 1, k + 1, trozo \o cortar_en_siguientes_etiquetas(ls[t]))

RECURSIVE BuscarFlexibleDesde(_, _, _)
\* the for loop of buscar_despues_de_etiqueta_flexible at line j, up to line fin
BuscarFlexibleDesde(ls, j, fin) ==
  IF j > fin THEN None
  ELSE IF ls[j] = <<>> THEN BuscarFlexibleDesde(ls, j + 1, fin)
  ELSE IF PATRONES_CORTE(ls[j]) THEN BuscarFlexibleDesde(ls, j + 1, fin)
  ELSE IF ~es_nombre_viable(cortar_en_siguientes_etiquetas(ls[j]))
       THEN BuscarFlexibleDesde(ls, j + 1, fin)
  ELSE LET trozo == ConcatenarFlexible(ls, j + 1, 0, cortar_en_siguientes_etiquetas(ls[j]))
       IN IF es_nombre_viable(trozo) THEN Some(trozo)
          ELSE BuscarFlexibleDesde(ls, j + 1, fin)

\* idx_inicio is the (1-based) index of the label line
buscar_despues_de_etiqueta_flexible(ls, idx_inicio) ==
  BuscarFlexibleDesde(ls, idx_inicio + 1,
                      Min(idx_inicio + VENTANA_BUSQUEDA_SIGUIENTES, Len(ls)))

\* determinar_layout testing the legal-name labels before the primary label
determinar_layout_razon_primero(ls) ==
  LET tiene_afip == \E i \in 1..Len(ls) :
                       PATRON_ETIQUETA_SOLO(ls[i]) \/ PATRON_ETIQUETA_INLINE(ls[i])
      conteo_razon == Cardinality({i \in 1..Len(ls) :
                       PATRON_RAZON_INLINE(ls[i]) \/ PATRON_RAZON_SOLO(ls[i])})
      hay_indicios_b == INDICIOS_LAYOUT_B(ls)
  IN IF conteo_razon # 0 /\ hay_indicios_b THEN "PROV_B"
     ELSE IF conteo_razon >= 2 THEN "PROV_B"
     ELSE IF tiene_afip THEN "AFIP_MONO"
     ELSE "UNKNOWN"

\* determinar_layout asking for more than two legal-name labels
determinar_layout_mas_de_dos(ls) ==
  LET tiene_afip == \E i \in 1..Len(ls) :
                       PATRON_ETIQUETA_SOLO(ls[i]) \/ PATRON_ETIQUETA_INLINE(ls[i])
      conteo_razon == Cardinality({i \in 1..Len(ls) :
                       PATRON_RAZON_INLINE(ls[i]) \/ PATRON_RAZON_SOLO(ls[i])})
      hay_indicios_b == INDICIOS_LAYOUT_B(ls)
  IN IF tiene_afip THEN "AFIP_MONO"
     ELSE IF conteo_razon # 0 /\ hay_indicios_b THEN "PROV_B"
     ELSE IF conteo_razon > 2 THEN "PROV_B"
     ELSE "UNKNOWN"

determinar_layout(ls) ==
  LET tiene_afip == \E i \in 1..Len(ls) :
                       PATRON_ETIQUETA_SOLO(ls[i]) \/ PATRON_ETIQUETA_INLINE(ls[i])
      conteo_razon == Cardinality({i \in 1..Len(ls) :
                       PATRON_RAZON_INLINE(ls[i]) \/ PATRON_RAZON_SOLO(ls[i])})
      hay_indicios_b == INDICIOS_LAYOUT_B(ls)
  IN IF tiene_afip THEN "AFIP_MONO"
     ELSE IF conteo_razon # 0 /\ hay_indicios_b THEN "PROV_B"
     ELSE IF conteo_razon >= 2 THEN "PROV_B"
     ELSE "UNKNOWN"

RECURSIVE ContinuarAfip_sin_direccion(_, _, _, _)
\* the loop of extraer_afip_mono without the test for address-like lines
ContinuarAfip_sin_direccion(ls, j, k, trozo) ==
  IF ~(k < 2 /\ j <= Len(ls)) THEN trozo
  ELSE IF ls[j] = <<>> THEN ContinuarAfip_sin_direccion(ls, j + 1, k, trozo)
  ELSE IF PATRONES_CORTE(ls[j]) THEN trozo
  ELSE IF cortar_en_siguientes_etiquetas(ls[j]) # <<>>
       THEN ContinuarAfip_sin_direccion(ls, j + 1, k + 1,
                                        trozo \o cortar_en_siguientes_etiquetas(ls[j]))
  ELSE ContinuarAfip_sin_direccion(ls, j + 1, k, trozo)

RECURSIVE ContinuarAfip(_, _, _, _)
\* the while loop of phase 1 of extraer_afip_mono; j is the next line to read
ContinuarAfip(ls, j, k, trozo) ==
  IF ~(k < 2 /\ j <= Len(ls)) THEN trozo
  ELSE IF ls[j] = <<>> THEN ContinuarAfip(ls, j + 1, k, trozo)
  ELSE IF PATRONES_CORTE(ls[j]) \/ parece_direccion(ls[j]) THEN trozo
  ELSE IF cortar_en_siguientes_etiquetas(ls[j]) # <<>>
       THEN ContinuarAfip(ls, j + 1, k + 1, trozo \o cortar_en_siguientes_etiquetas(ls[j]))
  ELSE ContinuarAfip(ls, j + 1, k, trozo)

\* phase 1 of extraer_afip_mono at the label line idx: the candidate it returns, if any
AfipInlineEn(ls, idx) ==
  LET trozo == cortar_en_siguientes_etiquetas(Grupo1(ls[idx], EtiquetaPrimaria))
  IN IF SUFIJOS_SOCIALES(trozo) /\ es_nombre_viable(trozo) THEN Some(trozo)
     ELSE LET unido == ContinuarAfip(ls, idx + 1, 0, trozo)
          IN IF es_nombre_viable(unido) THEN Some(unido) ELSE None

RECURSIVE AfipFase1(_, _)
AfipFase1(ls, idx) ==
  IF idx > Len(ls) THEN None
  ELSE IF ~PATRON_ETIQUETA_INLINE(ls[idx]) THEN AfipFase1(ls, idx + 1)
  ELSE IF AfipInlineEn(ls, idx).some THEN AfipInlineEn(ls, idx)
  ELSE AfipFase1(ls, idx + 1)

RECURSIVE AfipVentana(_, _, _)
\* the inner for loop of phase 2 of extraer_afip_mono
AfipVentana(ls, j, fin) ==
  IF j > fin THEN None
  ELSE IF ls[j] = <<>> \/ PATRONES_CORTE(ls[j]) \/ parece_direccion(ls[j])
       THEN AfipVentana(ls, j + 1, fin)
  ELSE IF es_nombre_viable(cortar_en_siguientes_etiquetas(ls[j]))
       THEN Some(cortar_en_siguientes_etiquetas(ls[j]))
  ELSE AfipVentana(ls, j + 1, fin)

RECURSIVE AfipFase2(_, _)
AfipFase2(ls, i) ==
  IF i > Len(ls) THEN None
  ELSE IF ~PATRON_ETIQUETA_SOLO(ls[i]) THEN AfipFase2(ls, i + 1)
  ELSE LET r == AfipVentana(ls, i + 1, Min(i + VENTANA_BUSQUEDA_SIGUIENTES, Len(ls)))
       IN IF r.some THEN r ELSE AfipFase2(ls, i + 1)

extraer_afip_mono(ls) ==
  IF AfipFase1(ls, 1).some THEN AfipFase1(ls, 1) ELSE AfipFase2(ls, 1)

RECURSIVE ContinuarRazon(_, _, _, _)
\* the while loop of phase 1 of extraer_razon_social
ContinuarRazon(ls, j, k, trozo) ==
  IF ~(k < 2 /\ j <= Len(ls)) THEN trozo
  ELSE IF ls[j] = <<>> THEN ContinuarRazon(ls, j + 1, k, trozo)
  ELSE IF PATRONES_CORTE(ls[j]) THEN trozo
  ELSE ContinuarRazon(ls, j + 1, k + 1, trozo \o cortar_en_siguientes_etiquetas(ls[j]))

RECURSIVE RazonFase1(_, _)
RazonFase1(ls, idx) ==
  IF idx > Len(ls) THEN None
  ELSE IF ~PATRON_RAZON_INLINE(ls[idx]) THEN RazonFase1(ls, idx + 1)
  ELSE LET trozo == ContinuarRazon(ls, idx + 1, 0,
                      cortar_en_siguientes_etiquetas(
                        Grupo1(ls[idx], EtiquetaRazon \cup EtiquetaPrimaria)))
       IN IF es_nombre_viable(trozo) THEN Some(trozo) ELSE RazonFase1(ls, idx + 1)

RECURSIVE RazonFase2(_, _)
RazonFase2(ls, i) ==
  IF i > Len(ls) THEN None
  ELSE IF ~PATRON_RAZON_SOLO(ls[i]) THEN RazonFase2(ls, i + 1)
  ELSE IF Truthy(buscar_despues_de_etiqueta_flexible(ls, i))
       THEN buscar_despues_de_etiqueta_flexible(ls, i)
  ELSE RazonFase2(ls, i + 1)

extraer_razon_social(ls) ==
  IF RazonFase1(ls, 1).some THEN RazonFase1(ls, 1) ELSE RazonFase2(ls, 1)

RECURSIVE InsertarPorLargo_inestable(_, _)
\* a sort by length that puts x before the elements of its own length
InsertarPorLargo_inestable(cs, x) ==
  IF cs = <<>> THEN <<x>>
  ELSE IF StrLen(Head(cs)) > StrLen(x)
       THEN <<Head(cs)>> \o InsertarPorLargo_inestable(Tail(cs), x)
  ELSE <<x>> \o cs

RECURSIVE InsertarPorLargo(_, _)
\* where a stable sort by len, reverse=True, puts x among the sorted cs that preceded it
InsertarPorLargo(cs, x) ==
  IF cs = <<>> THEN <<x>>
  ELSE IF StrLen(Head(cs)) >= StrLen(x) THEN <<Head(cs)>> \o InsertarPorLargo(Tail(cs), x)
  ELSE <<x>> \o cs

RECURSIVE OrdenarPorLargo(_)
\* candidatos.sort(key=len, reverse=True)
OrdenarPorLargo(cs) ==
  IF cs = <<>> THEN <<>>
  ELSE InsertarPorLargo(OrdenarPorLargo(SubSeq(cs, 1, Len(cs) - 1)), cs[Len(cs)])

RECURSIVE Candidatos(_, _)
\* the list candidatos of detectar_nombre_cliente, from line i on
Candidatos(ls, i) ==
  IF i > Len(ls) THEN <<>>
  ELSE IF SUFIJOS_SOCIALES(ls[i]) /\ es_nombre_viable(cortar_en_siguientes_etiquetas(ls[i]))
       THEN <<cortar_en_siguientes_etiquetas(ls[i])>> \o Candidatos(ls, i + 1)
  ELSE Candidatos(ls, i + 1)

\* the last resort of detectar_nombre_cliente
RecursoFinalNombre(ls) ==
  IF Candidatos(ls, 1) # <<>> THEN Some(OrdenarPorLargo(Candidatos(ls, 1))[1]) ELSE None

\* ----------------------------------------- detectar_nombre_cliente, stepwise

\* the variables of a function that is not running
NombreEnReposo ==
  lineas = <<>> /\ xpc = "reposo" /\ layout = "" /\ nombre = None /\ resultado = None

FechaEnReposo == texto = <<>> /\ fpc = 0 /\ fecha = [some |-> FALSE, s |-> ""]

RunEnReposo ==
  /\ pc = "reposo" /\ apply = FALSE /\ limite = 0 /\ formato = ""
  /\ dirSalida = FALSE /\ salida = {} /\ fs0 = [dir |-> FALSE, archivos |-> {}]
  /\ archivos = <<>> /\ pos = 0 /\ stdout = <<>> /\ corrida = 0
  /\ rutaValida = FALSE /\ fallos = 0

\* the sequences over S of 1 to n elements
SecuenciasHasta(S, n) == UNION {[1..k -> S] : k \in 1..n}

PLc == "Apellido y Nombre / Razon Social:"

RLc == "Razon Social:"

LineaInlineJuanPerez == <<PLc, "JUAN", "PEREZ">>

LineaDomicilio == <<"Domicilio:", "Calle", "Falsa", "123">>

\* texts around an inline primary label
LineasPrimario ==
  { <<>>, LineaInlineJuanPerez, <<"ACME">>, LineaDomicilio, <<"Calle", "Falsa", "123">>,
    <<PLc>>, <<PLc, "ACME", "SRL">>, <<RLc>> }

\* texts around a legal-name label
LineasSecundario ==
  { <<>>, <<RLc>>, <<"Razon Social">>, <<RLc, "ACME", "SRL">>, LineaDomicilio,
    <<"ACME", "S.A.">>, <<"ACME", "SRL">>, <<"Factura B">>, <<PLc>>, <<"JUAN", "PEREZ">> }

\* texts with lines that carry a legal-entity suffix
LineasSufijo ==
  { <<"ACME", "SRL">>, <<"RIOS", "SRL">>, <<"JUAN", "PEREZ", "SRL">>, <<"ACME", "S.A.">>,
    <<"JUAN", "PEREZ", "Domicilio:", "SRL">>, <<"ACME", "SRL", DS, "123">>,
    LineaInlineJuanPerez, <<RLc>> }

InitNombre(U) ==
  /\ lineas \in SecuenciasHasta(U, MaxLineas)
  /\ xpc = "inicio" /\ layout = "" /\ nombre = None /\ resultado = None
  /\ FechaEnReposo /\ RunEnReposo

\* layout = determinar_layout(lineas)
DeterminarLayout ==
  /\ xpc = "inicio"
  /\ layout' = determinar_layout(lineas)
  /\ xpc' = "layout"
  /\ UNCHANGED <<lineas, nombre, resultado, fvars, rvars>>

\* if layout == "AFIP_MONO": nombre = extraer_afip_mono(lineas) or extraer_razon_social(lineas)
DespacharAfipMono ==
  /\ xpc = "layout" /\ layout = "AFIP_MONO"
  /\ nombre' = OrElse(extraer_afip_mono(lineas), extraer_razon_social(lineas))
  /\ xpc' = "despachado"
  /\ UNCHANGED <<lineas, layout, resultado, fvars, rvars>>

\* elif layout == "PROV_B": nombre = extraer_razon_social(lineas) or extraer_afip_mono(lineas)
DespacharProvB ==
  /\ xpc = "layout" /\ layout = "PROV_B"
  /\ nombre' = OrElse(extraer_razon_social(lineas), extraer_afip_mono(lineas))
  /\ xpc' = "despachado"
  /\ UNCHANGED <<lineas, layout, resultado, fvars, rvars>>

\* else: nombre = extraer_afip_mono(lineas) or extraer_razon_social(lineas)
DespacharUnknown ==
  /\ xpc = "layout" /\ layout \notin {"AFIP_MONO", "PROV_B"}
  /\ nombre' = OrElse(extraer_afip_mono(lineas), extraer_razon_social(lineas))
  /\ xpc' = "despachado"
  /\ UNCHANGED <<lineas, layout, resultado, fvars, rvars>>

\* if nombre and es_nombre_viable(nombre): return nombre
RetornarNombre ==
  /\ xpc = "despachado"
  /\ Truthy(nombre) /\ es_nombre_viable(nombre.s)
  /\ resultado' = nombre
  /\ xpc' = "fin"
  /\ UNCHANGED <<lineas, layout, nombre, fvars, rvars>>

\* otherwise the scan of the lines with a legal-entity suffix
RecursoFinal ==
  /\ xpc = "despachado"
  /\ ~(Truthy(nombre) /\ es_nombre_viable(nombre.s))
  /\ resultado' = RecursoFinalNombre(lineas)
  /\ xpc' = "fin"
  /\ UNCHANGED <<lineas, layout, nombre, fvars, rvars>>

NextNombre ==
  \/ DeterminarLayout
  \/ DespacharAfipMono
  \/ DespacharProvB
  \/ DespacharUnknown
  \/ RetornarNombre
  \/ RecursoFinal

InitPrimario == InitNombre(LineasPrimario)

InitSecundario == InitNombre(LineasSecundario)

InitSufijo == InitNombre(LineasSufijo)

SpecPrimario == InitPrimario /\ [][NextNombre]_vars

SpecSecundario == InitSecundario /\ [][NextNombre]_vars

SpecSufijo == InitSufijo /\ [][NextNombre]_vars

\* --------------------------------------------- claims on the name detection

\* the line holds a primary identity label / a legal-name label
TieneEtiquetaPrimaria(ln) == \E i \in 1..Len(ln) : ln[i] \in EtiquetaPrimaria

TieneEtiquetaRazon(ln) == \E i \in 1..Len(ln) : ln[i] \in EtiquetaRazon

LineasConEtiquetaRazon == {i \in 1..Len(lineas) : TieneEtiquetaRazon(lineas[i])}

HayIndicadorDeFamilia == \E i \in 1..Len(lineas) : \E j \in 1..Len(lineas[i]) :
                            lineas[i][j] = "Factura B"

HayEtiquetaPrimaria == \E i \in 1..Len(lineas) : TieneEtiquetaPrimaria(lineas[i])

JuanPerez == Some(<<"JUAN", "PEREZ">>)

\* C10: the layout is one of the three variants; it is AFIP_MONO exactly when some line
\* holds the primary identity label, however many legal-name labels and family indicators
\* there are; otherwise PROV_B exactly when there is at least one legal-name label line
\* with a family indicator in the text, or at least two; otherwise UNKNOWN.
C10_ClasificacionPorPrecedencia ==
  xpc # "inicio" =>
    /\ layout \in {"AFIP_MONO", "PROV_B", "UNKNOWN"}
    /\ layout = "AFIP_MONO" <=> HayEtiquetaPrimaria
    /\ layout = "PROV_B" <=>
         /\ ~HayEtiquetaPrimaria
         /\ \/ Cardinality(LineasConEtiquetaRazon) >= 1 /\ HayIndicadorDeFamilia
            \/ Cardinality(LineasConEtiquetaRazon) >= 2
    /\ layout = "UNKNOWN" <=>
         /\ ~HayEtiquetaPrimaria
         /\ ~(Cardinality(LineasConEtiquetaRazon) >= 1 /\ HayIndicadorDeFamilia)
         /\ Cardinality(LineasConEtiquetaRazon) < 2

\* C10 witness: a text with a primary label, two legal-name labels and a family indicator
\* was classified AFIP_MONO
C10_Testigo ==
  /\ xpc = "fin"
  /\ layout = "AFIP_MONO"
  /\ Cardinality(LineasConEtiquetaRazon) >= 2
  /\ HayIndicadorDeFamilia

\* C8: for a text classified PROV_B the primary extractor yields nothing, the dispatched
\* value is the one of extraer_razon_social, and the returned identity is that value when
\* viable and the result of the last-resort suffix scan otherwise.
C8_SinRespaldoPrimario ==
  layout = "PROV_B" =>
    /\ xpc \in {"despachado", "fin"} => nombre = extraer_razon_social(lineas)
    /\ xpc = "fin" =>
         /\ ~extraer_afip_mono(lineas).some
         /\ resultado = IF /\ Truthy(extraer_razon_social(lineas))
                           /\ es_nombre_viable(extraer_razon_social(lineas).s)
                        THEN extraer_razon_social(lineas)
                        ELSE RecursoFinalNombre(lineas)

\* C8 witness: a PROV_B text on which extraer_razon_social found nothing and the suffix
\* scan supplied the identity
C8_Testigo ==
  /\ xpc = "fin"
  /\ layout = "PROV_B"
  /\ ~extraer_razon_social(lineas).some
  /\ resultado = Some(<<"ACME", "SRL">>)

EscenarioRazonSolo == << <<RLc>>, <<>>, LineaDomicilio, <<"ACME", "S.A.">> >>

\* C6: for "Razon Social:", a blank line, "Domicilio: Calle Falsa 123", "ACME S.A."
\* extraer_razon_social returns "ACME S.A.".
C6_EscenarioDevuelveAcme ==
  (xpc = "fin" /\ lineas = EscenarioRazonSolo) =>
    extraer_razon_social(lineas) = Some(<<"ACME", "S.A.">>)

\* the line holds neither label
NoRelacionada(ln) == ~TieneEtiquetaPrimaria(ln) /\ ~TieneEtiquetaRazon(ln)

\* line i is the inline label line and every other line is unrelated
EscenarioInline(i) ==
  /\ i \in 1..Len(lineas)
  /\ lineas[i] = LineaInlineJuanPerez
  /\ \A j \in 1..Len(lineas) : j # i => NoRelacionada(lineas[j])

\* the line ends the continuation merge of extraer_afip_mono
CortaLaUnion(ln) == PATRONES_CORTE(ln) \/ parece_direccion(ln)

\* between line i and every non-blank line after it that is neither a stop-label nor an
\* address-like line there is a stop-label or address-like line
SigueCorteODireccion(i) ==
  \A j \in (i + 1)..Len(lineas) :
    (lineas[j] # <<>> /\ ~CortaLaUnion(lineas[j])) =>
      \E k \in (i + 1)..(j - 1) : CortaLaUnion(lineas[k])

\* C7 as stated: with the inline label line among unrelated lines only, the text is
\* classified AFIP_MONO and extraer_afip_mono returns exactly "JUAN PEREZ".
C7_OriginalSiempreJuanPerez ==
  (xpc = "fin" /\ \E i \in 1..Len(lineas) : EscenarioInline(i)) =>
    /\ layout = "AFIP_MONO"
    /\ extraer_afip_mono(lineas) = JuanPerez

\* C7 amended: with the inline label line among unrelated lines only, the text is
\* classified AFIP_MONO; when the first non-blank line after the label line, if any, is
\* a stop-label or address-like line, extraer_afip_mono and detectar_nombre_cliente
\* return exactly "JUAN PEREZ".
C7_JuanPerezSiSigueCorte ==
  \A i \in 1..Len(lineas) :
    (xpc = "fin" /\ EscenarioInline(i)) =>
      /\ layout = "AFIP_MONO"
      /\ SigueCorteODireccion(i) =>
           /\ extraer_afip_mono(lineas) = JuanPerez
           /\ nombre = JuanPerez
           /\ resultado = JuanPerez

\* C7 witness: label line, blank, address-like line, plain text: nothing was appended
C7_Testigo ==
  /\ xpc = "fin"
  /\ lineas = <<LineaInlineJuanPerez, <<>>, <<"Calle", "Falsa", "123">>, <<"ACME">>>>
  /\ resultado = JuanPerez

\* the lines with a legal-entity suffix whose trimmed text is viable
LineasCandidatas ==
  {i \in 1..Len(lineas) : /\ SUFIJOS_SOCIALES(lineas[i])
                          /\ es_nombre_viable(cortar_en_siguientes_etiquetas(lineas[i]))}

Recortada(i) == cortar_en_siguientes_etiquetas(lineas[i])

\* C9: when the dispatched extractors yield nothing viable, the returned value is the
\* trimmed text of the first of the longest candidate lines, and it is None exactly when
\* there is no candidate line; a returned value is never empty or non-viable.
C9_RecursoFinalElMasLargo ==
  (xpc = "fin" /\ ~(Truthy(nombre) /\ es_nombre_viable(nombre.s))) =>
    /\ (resultado = None) <=> (LineasCandidatas = {})
    /\ resultado.some => resultado.s # <<>> /\ es_nombre_viable(resultado.s)
    /\ LineasCandidatas # {} =>
         \E i \in LineasCandidatas :
           /\ resultado = Some(Recortada(i))
           /\ \A j \in LineasCandidatas :
                /\ StrLen(Recortada(j)) <= StrLen(Recortada(i))
                /\ StrLen(Recortada(j)) = StrLen(Recortada(i)) => i <= j

\* C9 witness: two candidates of the same length, the first one was returned, and a
\* shorter candidate is present
C9_Testigo ==
  /\ xpc = "fin"
  /\ ~Truthy(nombre)
  /\ lineas = << <<"ACME", "S.A.">>, <<"RIOS", "SRL">>, <<"ACME", "SRL">> >>
  /\ resultado = Some(<<"RIOS", "SRL">>)

\* ------------------------------------------------- detectar_fecha_emision

SinFecha == [some |-> FALSE, s |-> ""]

Fechas4 == {"05/03/2024", "01/01/2023"}

Fechas2 == {"05/03/24"}

LexemasFecha == {"Fecha:", "Fecha de Emision:", "Total"} \cup Fechas4 \cup Fechas2

\* fecha.split("/")
Partes(f) ==
  CASE f = "05/03/2024" -> <<"05", "03", "2024">>
    [] f = "01/01/2023" -> <<"01", "01", "2023">>
    [] f = "05/03/24" -> <<"05", "03", "24">>

\* the list patrones, in its order
patrones == <<"FECHA", "FECHA_DE_EMISION", "DD_MM_YYYY", "DD_MM_YY">>

RECURSIVE PrimeraTras(_, _, _, _)
\* the first lexeme of F that directly follows the lexeme etiqueta, from index i on
PrimeraTras(t, etiqueta, F, i) ==
  IF i >= Len(t) THEN ""
  ELSE IF t[i] = etiqueta /\ t[i + 1] \in F THEN t[i + 1]
  ELSE PrimeraTras(t, etiqueta, F, i + 1)

RECURSIVE PrimeraDe(_, _, _)
\* the first lexeme of F, from index i on
PrimeraDe(t, F, i) ==
  IF i > Len(t) THEN ""
  ELSE IF t[i] \in F THEN t[i]
  ELSE PrimeraDe(t, F, i + 1)

\* patron.search(texto): group(1) of the first match, "" when there is none
Buscar(patron, t) ==
  CASE patron = "FECHA" -> PrimeraTras(t, "Fecha:", Fechas4, 1)
    [] patron = "FECHA_DE_EMISION" -> PrimeraTras(t, "Fecha de Emision:", Fechas4, 1)
    [] patron = "DD_MM_YYYY" -> PrimeraDe(t, Fechas4, 1)
    [] patron = "DD_MM_YY" -> PrimeraDe(t, Fechas2, 1)

\* the normalisation dd/mm/yyyy -> yyyymmdd, a two-digit year prefixed with "20"
Normalizar(f) ==
  LET partes == Partes(f)
      anio == IF Len(partes[3]) = 2 THEN "20" \o partes[3] ELSE partes[3]
  IN anio \o partes[2] \o partes[1]

InitFecha ==
  /\ texto \in SecuenciasHasta(LexemasFecha, MaxTexto)
  /\ fpc = 1
  /\ fecha = SinFecha
  /\ NombreEnReposo /\ RunEnReposo

\* m = patron.search(texto) is None: on to the next pattern
PatronNoCoincide ==
  /\ fpc \in 1..Len(patrones)
  /\ Buscar(patrones[fpc], texto) = ""
  /\ fpc' = fpc + 1
  /\ UNCHANGED <<texto, fecha, nvars, rvars>>

\* if m: return the normalised date
RetornarFecha ==
  /\ fpc \in 1..Len(patrones)
  /\ Buscar(patrones[fpc], texto) # ""
  /\ fecha' = [some |-> TRUE, s |-> Normalizar(Buscar(patrones[fpc], texto))]
  /\ fpc' = Len(patrones) + 2
  /\ UNCHANGED <<texto, nvars, rvars>>

\* return None
RetornarSinFecha ==
  /\ fpc = Len(patrones) + 1
  /\ fecha' = SinFecha
  /\ fpc' = Len(patrones) + 2
  /\ UNCHANGED <<texto, nvars, rvars>>

FechaRetornada == fpc = Len(patrones) + 2

NextFecha == PatronNoCoincide \/ RetornarFecha \/ RetornarSinFecha

SpecFecha == InitFecha /\ [][NextFecha]_vars

\* the dates that follow an issuance-date label / a generic date label in the text
FechasTrasEmision ==
  {texto[i + 1] : i \in {k \in 1..(Len(texto) - 1) :
                           texto[k] = "Fecha de Emision:" /\ texto[k + 1] \in Fechas4}}

FechasTrasFecha ==
  {texto[i + 1] : i \in {k \in 1..(Len(texto) - 1) :
                           texto[k] = "Fecha:" /\ texto[k + 1] \in Fechas4}}

\* C5: when the text holds a date after an issuance-date label and a different date
\* after a generic date label, in either order, the date returned is the one after the
\* issuance-date label.
C5_PrimeroFechaDeEmision ==
  (/\ FechaRetornada
   /\ FechasTrasEmision # {}
   /\ FechasTrasFecha # {}
   /\ FechasTrasEmision \cap FechasTrasFecha = {}) =>
    \E f \in FechasTrasEmision : fecha = [some |-> TRUE, s |-> Normalizar(f)]

\* ------------------------------------------------- file names, as strings

\* a sequence of characters as a string
RECURSIVE Unir(_)
Unir(cs) == IF cs = <<>> THEN "" ELSE Head(cs) \o Unir(Tail(cs))

Digito(d) ==
  CASE d = 0 -> "0" [] d = 1 -> "1" [] d = 2 -> "2" [] d = 3 -> "3" [] d = 4 -> "4"
    [] d = 5 -> "5" [] d = 6 -> "6" [] d = 7 -> "7" [] d = 8 -> "8" [] d = 9 -> "9"

RECURSIVE Decimal(_)
\* the formatting {i} of a natural number
Decimal(i) == IF i < 10 THEN Digito(i) ELSE Decimal(i \div 10) \o Digito(i % 10)

\* unidecode, on a character
Unidecode(c) == IF c = "Á" THEN "A" ELSE c

\* the characters that [^\w\s\-\.\&] does not match
Permitidos == {"A", "B", "C", "D", " ", ".", "-", "&", "_"}

RECURSIVE Transliterar(_)
Transliterar(cs) ==
  IF cs = <<>> THEN <<>> ELSE <<Unidecode(Head(cs))>> \o Transliterar(Tail(cs))

RECURSIVE Filtrar(_)
\* re.sub(r"[^\w\s\-\.\&]", "", nombre)
Filtrar(cs) ==
  IF cs = <<>> THEN <<>>
  ELSE IF Head(cs) \in Permitidos THEN <<Head(cs)>> \o Filtrar(Tail(cs))
  ELSE Filtrar(Tail(cs))

RECURSIVE Colapsar(_)
\* re.sub(r"\s+", " ", nombre)
Colapsar(cs) ==
  IF Len(cs) < 2 THEN cs
  ELSE IF cs[1] = " " /\ cs[2] = " " THEN Colapsar(Tail(cs))
  ELSE <<Head(cs)>> \o Colapsar(Tail(cs))

RECURSIVE StripDe(_, _)
\* str.strip(chars)
StripDe(cs, chars) ==
  IF cs = <<>> THEN cs
  ELSE IF Head(cs) \in chars THEN StripDe(Tail(cs), chars)
  ELSE IF cs[Len(cs)] \in chars THEN StripDe(SubSeq(cs, 1, Len(cs) - 1), chars)
  ELSE cs

sanear_para_nombre_archivo(nombre_cliente, largo_max) ==
  LET limpio == StripDe(Colapsar(Filtrar(Transliterar(nombre_cliente))), {" "})
  IN StripDe(SubSeq(limpio, 1, Min(largo_max, Len(limpio))), {" ", ".", "_", "-"})

RECURSIVE Reemplazar(_, _, _)
\* str.replace(a, b) for characters
Reemplazar(cs, a, b) ==
  IF cs = <<>> THEN <<>>
  ELSE <<IF Head(cs) = a THEN b ELSE Head(cs)>> \o Reemplazar(Tail(cs), a, b)

\* cliente_saneado of renombrar_pdf
ClienteSaneado(cliente, largo_max) ==
  Unir(Reemplazar(sanear_para_nombre_archivo(cliente, largo_max), " ", "_"))

\* os.path.basename(ruta_pdf)
Basename(doc) == doc.base \o doc.ext

\* nuevo_nombre without its extension
NuevaBase(fmt, fecha_doc, cliente_saneado, base_original) ==
  IF fmt = "YYYYMMDD_NOMBRE_CLIENTE"
  THEN fecha_doc \o "_" \o cliente_saneado \o "_" \o base_original
  ELSE IF fmt = "NOMBRE_CLIENTE_YYYYMMDD"
  THEN cliente_saneado \o "_" \o fecha_doc \o "_" \o base_original
  ELSE fecha_doc \o "_" \o cliente_saneado \o "_" \o base_original

\* the names of the files of a directory
Nombres(dir) == {f.nombre : f \in dir}

\* the collision test made once: if instead of while
EvitarColision_una_vez(dir, destino_final, base_sin_ext, ext, i) ==
  IF destino_final \in Nombres(dir)
  THEN base_sin_ext \o "(" \o Decimal(i) \o ")" \o ext
  ELSE destino_final

RECURSIVE EvitarColision(_, _, _, _, _)
\* the while loop of renombrar_pdf: the first name that does not exist
EvitarColision(dir, destino_final, base_sin_ext, ext, i) ==
  IF destino_final \in Nombres(dir)
  THEN EvitarColision(dir, base_sin_ext \o "(" \o Decimal(i) \o ")" \o ext,
                      base_sin_ext, ext, i + 1)
  ELSE destino_final

\* destino_final of renombrar_pdf for a target whose name without extension is raiz
DestinoFinal(dir, raiz) == EvitarColision(dir, raiz \o ".pdf", raiz, ".pdf", 2)

\* shutil.copy2 onto a name: the file is created, or replaced when it exists
Copiar(dir, nombre_archivo, contenido) ==
  {f \in dir : f.nombre # nombre_archivo}
    \cup {[nombre |-> nombre_archivo, contenido |-> contenido]}

\* ------------------------------------------------------------- the process

LimitePorDefecto == 80

\* values of PDF_CLIENT_NAME_MAXLEN
Limites == {0, 1, LimitePorDefecto}

\* values of PDF_FILENAME_FORMAT
Formatos == {"YYYYMMDD_NOMBRE_CLIENTE", "NOMBRE_CLIENTE_YYYYMMDD", "OTRO"}

\* the files that *.pdf and *.PDF find in the input directory
Entradas ==
  { [base |-> "a", ext |-> ".pdf"], [base |-> "a", ext |-> ".PDF"] }

\* what extraer_texto, detectar_nombre_cliente and detectar_fecha_emision give for a file
Contenidos ==
  { [texto |-> FALSE, cliente |-> None, fecha |-> SinFecha],
    [texto |-> TRUE, cliente |-> None, fecha |-> SinFecha],
    [texto |-> TRUE, cliente |-> Some(<<"Á", "B", " ", "C", "D">>),
     fecha |-> [some |-> TRUE, s |-> "20240305"]],
    [texto |-> TRUE, cliente |-> Some(<<":", " ", "A", "B", " ", "C", "D">>),
     fecha |-> [some |-> TRUE, s |-> "20240305"]],
    [texto |-> TRUE, cliente |-> Some(<<".", " ", "A", "B", " ", "C", "D">>),
     fecha |-> SinFecha] }

\* archivos: glob("*.pdf") followed by glob("*.PDF"), each in any order
Listados ==
  {<<>>} \cup
  { l \in SecuenciasHasta(Entradas, Cardinality(Entradas)) :
      /\ \A i, j \in 1..Len(l) : i # j => l[i] # l[j]
      /\ \A i, j \in 1..Len(l) : (l[i].ext = ".PDF" /\ l[j].ext = ".pdf") => j < i }

\* a file left in the output directory by something else
ArchivoAjeno == [nombre |-> "20240305_AB_CD_a(2).pdf", contenido |-> "ajeno"]

Instantanea == [dir |-> dirSalida, archivos |-> salida]

InitRun ==
  /\ pc = "import"
  /\ corrida = 1
  /\ apply \in BOOLEAN
  /\ limite \in Limites
  /\ formato \in Formatos
  /\ \E d \in {[dir |-> FALSE, archivos |-> {}], [dir |-> TRUE, archivos |-> {}],
               [dir |-> TRUE, archivos |-> {ArchivoAjeno}]} :
       dirSalida = d.dir /\ salida = d.archivos /\ fs0 = d
  /\ rutaValida \in BOOLEAN
  /\ \E l \in Listados : \E c \in [1..Len(l) -> Contenidos] :
       /\ ~rutaValida => l = <<>>
       /\ archivos = [i \in 1..Len(l) |->
                        [base |-> l[i].base, ext |-> l[i].ext, texto |-> c[i].texto,
                         cliente |-> c[i].cliente, fecha |-> c[i].fecha]]
  /\ pos = 0
  /\ stdout = <<>>
  /\ fallos = 0
  /\ NombreEnReposo /\ FechaEnReposo

\* the module is loaded: os.makedirs(RUTA_SALIDA, exist_ok=True)
Importar ==
  /\ pc = "import"
  /\ dirSalida' = TRUE
  /\ pc' = "main"
  /\ UNCHANGED <<apply, limite, formato, salida, fs0, archivos, pos, stdout, corrida,
                 rutaValida, fallos, nvars, fvars>>

\* if not os.path.isdir(ruta): sys.exit(2)
RutaInvalida ==
  /\ pc = "main" /\ ~rutaValida
  /\ pc' = "fin"
  /\ UNCHANGED <<apply, limite, formato, dirSalida, salida, fs0, archivos, pos, stdout,
                 corrida, rutaValida, fallos, nvars, fvars>>

\* if not archivos: sys.exit(0)
SinArchivos ==
  /\ pc = "main" /\ rutaValida /\ archivos = <<>>
  /\ pc' = "fin"
  /\ UNCHANGED <<apply, limite, formato, dirSalida, salida, fs0, archivos, pos, stdout,
                 corrida, rutaValida, fallos, nvars, fvars>>

\* for ruta_pdf in archivos: the loop is entered
EntrarAlLoop ==
  /\ pc = "main" /\ rutaValida /\ archivos # <<>>
  /\ pc' = "loop"
  /\ pos' = 1
  /\ UNCHANGED <<apply, limite, formato, dirSalida, salida, fs0, archivos, stdout,
                 corrida, rutaValida, fallos, nvars, fvars>>

EnElLoop == pc = "loop" /\ pos <= Len(archivos)

\* the locals of renombrar_pdf for the document the loop is at
FechaDe(doc) == IF doc.fecha.some /\ doc.fecha.s # "" THEN doc.fecha.s ELSE "SINFECHA"

\* the identities that detectar_nombre_cliente gives for the files
Identidades == {k.cliente.s : k \in {c \in Contenidos : Truthy(c.cliente)}}

\* cliente_saneado, tabulated over the identities and the values of the limit
cliente_saneado == [c \in Identidades, l \in Limites |-> ClienteSaneado(c, l)]

RaizDe(doc) ==
  NuevaBase(formato, FechaDe(doc), cliente_saneado[doc.cliente.s, limite], doc.base)

\* the line that main prints for a document
Linea(tipo, doc, destino, error) ==
  [corrida |-> corrida, tipo |-> tipo, archivo |-> Basename(doc), destino |-> destino,
   error |-> error,
   raiz |-> IF tipo = "error" THEN "" ELSE RaizDe(doc),
   token |-> IF tipo = "error" THEN "" ELSE cliente_saneado[doc.cliente.s, limite],
   existia |-> tipo # "error" /\ destino \in Nombres(salida)]

\* what every iteration leaves alone
MarcoIteracion ==
  UNCHANGED <<pc, apply, limite, formato, dirSalida, fs0, archivos, corrida, rutaValida,
              nvars, fvars>>

\* extraer_texto raises RuntimeError; main prints the error
FallaExtraccion ==
  /\ EnElLoop
  /\ ~archivos[pos].texto
  /\ stdout' = Append(stdout, Linea("error", archivos[pos], "", "texto"))
  /\ pos' = pos + 1
  /\ UNCHANGED <<salida, fallos>>
  /\ MarcoIteracion

\* the ValueError of renombrar_pdf leaving the loop of main
FallaCliente_propaga ==
  /\ EnElLoop
  /\ archivos[pos].texto /\ ~Truthy(archivos[pos].cliente)
  /\ pc' = "fin"
  /\ UNCHANGED <<apply, limite, formato, dirSalida, salida, fs0, archivos, pos, stdout,
                 corrida, rutaValida, fallos, nvars, fvars>>

\* if not cliente: raise ValueError; main prints the error
FallaCliente ==
  /\ EnElLoop
  /\ archivos[pos].texto /\ ~Truthy(archivos[pos].cliente)
  /\ stdout' = Append(stdout, Linea("error", archivos[pos], "", "cliente"))
  /\ pos' = pos + 1
  /\ UNCHANGED <<salida, fallos>>
  /\ MarcoIteracion

\* if simulacion: return "[DRY-RUN] ..."
Simular ==
  /\ EnElLoop
  /\ archivos[pos].texto /\ Truthy(archivos[pos].cliente)
  /\ ~apply
  /\ stdout' = Append(stdout, Linea("dryrun", archivos[pos],
                                    DestinoFinal(salida, RaizDe(archivos[pos])), ""))
  /\ pos' = pos + 1
  /\ UNCHANGED <<salida, fallos>>
  /\ MarcoIteracion

\* shutil.copy2(ruta_pdf, destino_final); return "Copiado: ..."
CopiarPdf ==
  /\ EnElLoop
  /\ archivos[pos].texto /\ Truthy(archivos[pos].cliente)
  /\ apply
  /\ salida' = Copiar(salida, DestinoFinal(salida, RaizDe(archivos[pos])),
                      Basename(archivos[pos]))
  /\ stdout' = Append(stdout, Linea("copiado", archivos[pos],
                                    DestinoFinal(salida, RaizDe(archivos[pos])), ""))
  /\ pos' = pos + 1
  /\ UNCHANGED fallos
  /\ MarcoIteracion

\* shutil.copy2 raises, before or after it created the destination; main prints the error
FallaCopia ==
  /\ EnElLoop
  /\ archivos[pos].texto /\ Truthy(archivos[pos].cliente)
  /\ apply
  /\ fallos < MaxFallos
  /\ \E parcial \in BOOLEAN :
       salida' = IF parcial
                 THEN Copiar(salida, DestinoFinal(salida, RaizDe(archivos[pos])), "parcial")
                 ELSE salida
  /\ stdout' = Append(stdout, Linea("error", archivos[pos], "", "copia"))
  /\ pos' = pos + 1
  /\ fallos' = fallos + 1
  /\ MarcoIteracion

\* the list is exhausted: main returns
TerminarLoop ==
  /\ pc = "loop" /\ pos > Len(archivos)
  /\ pc' = "fin"
  /\ UNCHANGED <<apply, limite, formato, dirSalida, salida, fs0, archivos, pos, stdout,
                 corrida, rutaValida, fallos, nvars, fvars>>

\* the tool is run again on the same input directory, with or without --apply
NuevaCorrida ==
  /\ pc = "fin"
  /\ corrida < MaxCorridas
  /\ corrida' = corrida + 1
  /\ apply' \in BOOLEAN
  /\ fs0' = Instantanea
  /\ pos' = 0
  /\ pc' = "import"
  /\ UNCHANGED <<limite, formato, dirSalida, salida, archivos, stdout, rutaValida, fallos,
                 nvars, fvars>>

NextRun ==
  \/ Importar
  \/ RutaInvalida
  \/ SinArchivos
  \/ EntrarAlLoop
  \/ FallaExtraccion
  \/ FallaCliente
  \/ Simular
  \/ CopiarPdf
  \/ FallaCopia
  \/ TerminarLoop
  \/ NuevaCorrida

SpecRun == InitRun /\ [][NextRun]_vars

\* ------------------------------------------------- claims on the process

\* the lines printed by the loop in the current run
LineasDeLaCorrida == SelectSeq(stdout, LAMBDA l : l.corrida = corrida)

\* the lines of the successful copies, over all runs
Copias == SelectSeq(stdout, LAMBDA l : l.tipo = "copiado")

\* raiz with the disambiguator n before the extension; n = 1 is no disambiguator
ConDesambiguador(raiz, n) ==
  IF n = 1 THEN raiz \o ".pdf" ELSE raiz \o "(" \o Decimal(n) \o ")" \o ".pdf"

\* as many disambiguators as there can be files, and one more
Desambiguadores == 1..(Cardinality(salida) + 1)

\* the disambiguator of a copy, 0 when its destination has not that form
DesambiguadorDe(l) ==
  IF \E n \in Desambiguadores : l.destino = ConDesambiguador(l.raiz, n)
  THEN CHOOSE n \in Desambiguadores : l.destino = ConDesambiguador(l.raiz, n)
  ELSE 0

\* the files under one of the names of the target raiz that no recorded copy wrote
AjenosDe(raiz) ==
  {f \in salida : /\ \E n \in Desambiguadores : f.nombre = ConDesambiguador(raiz, n)
                  /\ \A k \in 1..Len(Copias) : Copias[k].destino # f.nombre}

\* C1: the copies of documents with the same target name have pairwise distinct
\* destinations with strictly increasing disambiguators placed before the extension,
\* no destination existed when it was written, and when nothing else put a file under
\* those names the k-th copy gets no disambiguator for k = 1 and (k) for k > 1.
C1_DestinosDistintosYCrecientes ==
  \A i \in 1..Len(Copias) :
    /\ ~Copias[i].existia
    /\ DesambiguadorDe(Copias[i]) >= 1
    /\ \A j \in (i + 1)..Len(Copias) :
         Copias[j].raiz = Copias[i].raiz =>
           /\ Copias[j].destino # Copias[i].destino
           /\ DesambiguadorDe(Copias[i]) < DesambiguadorDe(Copias[j])
    /\ AjenosDe(Copias[i].raiz) = {} =>
         DesambiguadorDe(Copias[i]) =
           Cardinality({k \in 1..i : Copias[k].raiz = Copias[i].raiz})

\* C1 witness: four copies with the same target: no disambiguator, (2), (3), (4)
C1_Testigo ==
  /\ Len(Copias) = 4
  /\ \A k \in 1..4 : /\ Copias[k].raiz = "20240305_AB_CD_a"
                     /\ Copias[k].destino = ConDesambiguador("20240305_AB_CD_a", k)
  /\ Copias[2].destino = "20240305_AB_CD_a(2).pdf"

\* C2: without --apply the output directory, its existence included, is as it was
\* when the run started.
C2_SimulacionNoMuta == ~apply => Instantanea = fs0

\* one step of the loop of main: an iteration, or leaving at the end of the list
PasoDelLoop ==
  FallaExtraccion \/ FallaCliente \/ Simular \/ CopiarPdf \/ FallaCopia \/ TerminarLoop

\* C3: the loop prints one line per document, in the order of the list, an error line
\* carrying the name of the file and its reason; a failure never ends the loop, which
\* runs to the end of the list.
C3_UnaLineaPorDocumento ==
  /\ pc = "loop" => Len(LineasDeLaCorrida) = pos - 1
  /\ pc = "loop" => ENABLED PasoDelLoop
  /\ (pc = "fin" /\ rutaValida) => Len(LineasDeLaCorrida) = Len(archivos)
  /\ \A k \in 1..Len(LineasDeLaCorrida) :
       /\ k <= Len(archivos)
       /\ LineasDeLaCorrida[k].archivo = Basename(archivos[k])
       /\ LineasDeLaCorrida[k].tipo \in {"copiado", "dryrun", "error"}
       /\ LineasDeLaCorrida[k].tipo = "error" <=>
            LineasDeLaCorrida[k].error \in {"texto", "cliente", "copia"}
       /\ ~archivos[k].texto => LineasDeLaCorrida[k].error = "texto"
       /\ (archivos[k].texto /\ ~Truthy(archivos[k].cliente)) =>
            LineasDeLaCorrida[k].error = "cliente"

\* C3 witness: a run ended whose first document failed in the copy and whose second
\* document was copied
C3_Testigo ==
  /\ pc = "fin"
  /\ Len(LineasDeLaCorrida) = 2
  /\ LineasDeLaCorrida[1].error = "copia"
  /\ LineasDeLaCorrida[2].tipo = "copiado"

\* C4: a document whose identity sanitizes to the empty token gets an error line that
\* is not the identity-not-found error, and no preview or copy shows an empty token.
C4_SaneadoVacioEsError ==
  /\ \A k \in 1..Len(stdout) :
       stdout[k].tipo \in {"copiado", "dryrun"} => stdout[k].token # ""
  /\ \A k \in 1..Len(LineasDeLaCorrida) :
       (/\ archivos[k].texto
        /\ Truthy(archivos[k].cliente)
        /\ cliente_saneado[archivos[k].cliente.s, limite] = "") =>
         /\ LineasDeLaCorrida[k].tipo = "error"
         /\ LineasDeLaCorrida[k].error \notin {"texto", "cliente"}

====
